---- MODULE Spec2Model ----
(***************************************************************************)
(* PhyLab (src/assets/app.js): the per-canvas frame scheduler              *)
(* (CanvasRunner), the tab/subtab visibility controller, boot, and the     *)
(* update steps of the Space-Glider, Torque-Tycoon and Mirror-Madness      *)
(* demos.                                                                  *)
(*                                                                         *)
(* Time is counted in centiseconds (1 unit = 10 ms), so the 0.05 s clamp   *)
(* of CanvasRunner._tick is 5 units and a dt is a number of centiseconds.  *)
(***************************************************************************)
EXTENDS Integers, Sequences, FiniteSets, TLC

VARIABLES
  sched,     \* the CanvasRunner objects, the browser's animation-frame list, lastTs
  now,       \* performance.now(), in centiseconds
  dom,       \* the page: which canvases and panels exist, the active subtabs
  handlers,  \* the ids whose canvasHandlers entry is not null
  booted,    \* "no" | "done" | "failed" (boot() threw)
  threw,     \* whether the handler that ran last ended by throwing
  glider,    \* Space-Glider: level, score, fuel, ship, wells, orbs, keys held
  torque,    \* Torque-Tycoon: lever, masses, the target badge
  optics,    \* Mirror-Madness: mirrors, source, the bounce path drawn last
  projectile,\* Projectile Motion: the sliders' values, the path, the flight
  rc,        \* RC Circuit: R, C, V, the elapsed time, the charging flag
  waves      \* Wave Interference: wavelength, separation, the elapsed time

schedVars == <<sched, now, dom, handlers, booted, threw>>
simVars == <<projectile, rc, waves>>
demoVars == <<glider, torque, optics, projectile, rc, waves>>
vars == <<sched, now, dom, handlers, booted, threw, glider, torque, optics,
          projectile, rc, waves>>

----------------------------------------------------------------------------
(* Bounds of the model *)

MaxNow == 9
MaxMissing == 1

(* Program constants *)

CapDt == 5

----------------------------------------------------------------------------
(* Helpers *)

Min(a, b) == IF a < b THEN a ELSE b
Max(a, b) == IF a > b THEN a ELSE b

SeqToSet(s) == {s[i] : i \in 1..Len(s)}

----------------------------------------------------------------------------
(* canvasHandlers and the static tables of the visibility controller *)

canvasOrder ==
  <<"home-orbit", "game-glider", "game-torque", "game-optics",
    "sim-projectile", "sim-pendulum", "sim-rc", "sim-waves">>

Canvases == SeqToSet(canvasOrder)

gameCanvases == <<"game-glider", "game-torque", "game-optics">>
simCanvases == <<"sim-projectile", "sim-pendulum", "sim-rc", "sim-waves">>

\* the control panel each demo initializer fills ($("#glider-ui") ...)
uiOf ==
  [c \in Canvases \ {"home-orbit"} |->
     CASE c = "game-glider" -> "glider-ui"
       [] c = "game-torque" -> "torque-ui"
       [] c = "game-optics" -> "optics-ui"
       [] c = "sim-projectile" -> "projectile-ui"
       [] c = "sim-pendulum" -> "pendulum-ui"
       [] c = "sim-rc" -> "rc-ui"
       [] c = "sim-waves" -> "waves-ui"]

Panels == {uiOf[c] : c \in Canvases \ {"home-orbit"}}

NoSub == "(none)"
\* A value found on Object.prototype ("constructor", "toString", ...): a lookup
\* table[name] of an object literal returns it for such a name.  It is no array
\* and cannot be iterated; no canvas id is in it.
Inherited == {"(inherited)"}
ProtoNames == {"constructor"}

TabNames == {"home", "games", "simulations", "videos", "learn", "about"}
GameSubNames == {"glider", "torque", "optics"}
SimSubNames == {"projectile", "pendulum", "rc", "waves"}
\* names a data-tab / data-subtab attribute may carry that no table maps
UnmappedNames == {"extras"} \cup ProtoNames

gameTable(name) ==
  CASE name = "glider" -> {"game-glider"}
    [] name = "torque" -> {"game-torque"}
    [] name = "optics" -> {"game-optics"}
    [] name \in ProtoNames -> Inherited
    [] OTHER -> {}

simTable(name) ==
  CASE name = "projectile" -> {"sim-projectile"}
    [] name = "pendulum" -> {"sim-pendulum"}
    [] name = "rc" -> {"sim-rc"}
    [] name = "waves" -> {"sim-waves"}
    [] name \in ProtoNames -> Inherited
    [] OTHER -> {}

\* { ... }[name] || []
onSubpanelActivatedDummy(section, name) ==
  IF section = "games" THEN gameTable(name)
  ELSE IF section = "simulations" THEN simTable(name)
  ELSE {}

activeGameCanvasNames(d) ==
  IF d.gamesSub = NoSub THEN {} ELSE onSubpanelActivatedDummy("games", d.gamesSub)

activeSimCanvasNames(d) ==
  IF d.simsSub = NoSub THEN {} ELSE onSubpanelActivatedDummy("simulations", d.simsSub)

\* activePanels[name] || []
activePanels(d, name) ==
  CASE name = "home" -> {"home-orbit"}
    [] name = "games" -> activeGameCanvasNames(d)
    [] name = "simulations" -> activeSimCanvasNames(d)
    [] name \in {"videos", "learn", "about"} -> {}
    [] name \in ProtoNames -> Inherited
    [] OTHER -> {}

----------------------------------------------------------------------------
(* CanvasRunner *)

\* this._raf = 0, and the handle requestAnimationFrame returns: a handle
\* equals no other live handle.  Browsers count handles upwards; here a handle
\* names the runner that asked for it and is numbered among that runner's live
\* callbacks, which keeps the same equalities and a finite model.  A handle
\* whose callback has run or was cancelled is spent: cancelAnimationFrame, the
\* only reader of _raf, treats it as it treats 0, and Spent records it as 0.
NoHandle == [runner |-> "", n |-> 0]

\* The runners as their constructors leave them (running, raf), the browser's
\* list of animation-frame callbacks (queue), the global lastTs, and what is
\* observed of the draw callbacks: calls lists the draw callbacks made by the
\* handler that ran last, each with its dt, the time passed since the same
\* runner's previous draw callback (or its start), and whether setRunning(false)
\* had returned for that runner with no setRunning(true) since; gapBase is the
\* time of each running runner's previous draw callback (or start), awaitStart
\* the runners whose last setRunning call was setRunning(false).
NewSched(ts) ==
  [running |-> [c \in Canvases |-> FALSE],
   raf |-> [c \in Canvases |-> NoHandle],
   queue |-> <<>>,
   lastTs |-> ts,
   calls |-> <<>>,
   gapBase |-> [c \in Canvases |-> 0],
   awaitStart |-> [c \in Canvases |-> FALSE]]

LiveHandle(S, h) == \E i \in 1..Len(S.queue) : S.queue[i] = h

Spent(S) ==
  [S EXCEPT !.raf = [c \in Canvases |-> IF LiveHandle(S, S.raf[c]) THEN S.raf[c] ELSE NoHandle]]

FreshHandle(S, r) ==
  [runner |-> r,
   n |-> CHOOSE k \in 1..(Len(S.queue) + 1) :
           /\ ~LiveHandle(S, [runner |-> r, n |-> k])
           /\ \A g \in 1..(k - 1) : LiveHandle(S, [runner |-> r, n |-> g])]

\* this._raf = requestAnimationFrame(t => this._tick(t))
requestAnimationFrame(S, r) ==
  LET h == FreshHandle(S, r)
  IN [S EXCEPT !.queue = Append(@, h), !.raf[r] = h]

cancelAnimationFrame(S, h) ==
  [S EXCEPT !.queue = SelectSeq(@, LAMBDA e : e # h)]

\* this.draw(this.c, this.ctx, dt), as the scheduler sees it
draw(S, r, dt, ts) ==
  [S EXCEPT !.calls = Append(@, [runner |-> r, dt |-> dt, gap |-> ts - S.gapBase[r],
                                 afterStop |-> S.awaitStart[r]]),
            !.gapBase[r] = ts]

\* Math.min(0.05, (ts - lastTs)/1000)
frameDt(ts, last) == Min(CapDt, ts - last)

_tick(S, r, ts) ==
  IF ~S.running[r] THEN S
  ELSE LET dt == frameDt(ts, S.lastTs)
           S1 == [S EXCEPT !.lastTs = ts]
           S2 == draw(S1, r, dt, ts)
       IN requestAnimationFrame(S2, r)

\* if(run && !this.running){ ... }
startRunner(S, r, ts) ==
  _tick([S EXCEPT !.running[r] = TRUE, !.gapBase[r] = ts], r, ts)

\* a stop branch that does nothing
stopRunnerNoop(S, r) == S

\* else if(!run && this.running){ ... }
stopRunner(S, r) ==
  cancelAnimationFrame([S EXCEPT !.running[r] = FALSE, !.gapBase[r] = 0], S.raf[r])

\* a setRunning without the tests of this.running
setRunningUnguarded(S, r, run, ts) ==
  LET T == IF run THEN startRunner(S, r, ts) ELSE stopRunner(S, r)
  IN [T EXCEPT !.awaitStart[r] = ~run]

setRunning(S, r, run, ts) ==
  LET S0 == [S EXCEPT !.awaitStart[r] = IF run THEN FALSE ELSE @]
      T == IF run /\ ~S0.running[r] THEN startRunner(S0, r, ts)
           ELSE IF ~run /\ S0.running[r] THEN stopRunner(S0, r)
           ELSE S0
  IN [T EXCEPT !.awaitStart[r] = ~run]

----------------------------------------------------------------------------
(* Visibility controller.  A handler returns the scheduler state it leaves and *)
(* whether it threw.                                                           *)

Ret(S, err) == [s |-> S, err |-> err]

RECURSIVE setRunningOnlyActive(_, _, _, _, _, _)
\* a loop that starts the active canvases and stops none
setRunningOnlyActive(S, H, ids, active, ts, i) ==
  IF i > Len(ids) THEN S
  ELSE LET id == ids[i]
           S1 == IF id \in H /\ id \in active THEN setRunning(S, id, TRUE, ts) ELSE S
       IN setRunningOnlyActive(S1, H, ids, active, ts, i + 1)

RECURSIVE setRunningEach(_, _, _, _, _, _)
\* for (const id of ids) canvasHandlers[id]?.setRunning(active.has(id))
setRunningEach(S, H, ids, active, ts, i) ==
  IF i > Len(ids) THEN S
  ELSE LET id == ids[i]
           S1 == IF id \in H THEN setRunning(S, id, id \in active, ts) ELSE S
       IN setRunningEach(S1, H, ids, active, ts, i + 1)

onPanelActivated(S, H, d, name, ts) ==
  LET active == activePanels(d, name)
  IN IF active = Inherited
     THEN Ret(S, TRUE)      \* new Set(<a function>) throws TypeError
     ELSE Ret(setRunningEach(S, H, canvasOrder, active, ts, 1), FALSE)

\* one section's loop of onSubpanelActivated: active.includes(id) is evaluated
\* only for a non-null handler, and throws when active is not an array
subpanelGroup(S, H, ids, active, ts) ==
  IF active = Inherited
  THEN Ret(S, \E i \in 1..Len(ids) : ids[i] \in H)
  ELSE Ret(setRunningEach(S, H, ids, active, ts, 1), FALSE)

onSubpanelActivated(S, H, sectionSelector, subName, ts) ==
  IF sectionSelector = "#games"
  THEN subpanelGroup(S, H, gameCanvases, gameTable(subName), ts)
  ELSE IF sectionSelector = "#simulations"
  THEN subpanelGroup(S, H, simCanvases, simTable(subName), ts)
  ELSE Ret(S, FALSE)

----------------------------------------------------------------------------
(* Boot *)

\* new CanvasRunner(...): running = false, _raf = 0; resize() schedules nothing
newCanvasRunner(S, c) == [S EXCEPT !.running[c] = FALSE, !.raf[c] = NoHandle]

\* an initializer that starts the runner it creates, as initHomeOrbit does
initDemoStarting(B, d, c, ts) ==
  IF B.err THEN B
  ELSE IF c \notin d.canvasEl THEN B
  ELSE IF c # "home-orbit" /\ uiOf[c] \notin d.panelEl THEN [B EXCEPT !.err = TRUE]
  ELSE [B EXCEPT !.s = setRunning(newCanvasRunner(B.s, c), c, TRUE, ts), !.h = @ \cup {c}]

\* One initializer, on the boot state B = [s, h, err]: initHomeOrbit for
\* home-orbit, initGameGlider ... initSimWaves for the rest.  Without its canvas
\* it returns; without its panel, ui.innerHTML = "" throws before the handler is
\* stored; an earlier throw has already ended boot().
initDemo(B, d, c, ts) ==
  IF B.err THEN B
  ELSE IF c \notin d.canvasEl THEN B
  ELSE IF c # "home-orbit" /\ uiOf[c] \notin d.panelEl THEN [B EXCEPT !.err = TRUE]
  ELSE LET S1 == newCanvasRunner(B.s, c)
           S2 == IF c = "home-orbit" THEN setRunning(S1, c, TRUE, ts) ELSE S1
       IN [B EXCEPT !.s = S2, !.h = @ \cup {c}]

RECURSIVE initAll(_, _, _, _)
initAll(B, d, ts, i) ==
  IF i > Len(canvasOrder) THEN B
  ELSE initAll(initDemo(B, d, canvasOrder[i], ts), d, ts, i + 1)

boot(S, d, ts) ==
  LET B == initAll([s |-> S, h |-> {}, err |-> FALSE], d, ts, 1)
  IN IF B.err THEN B
     ELSE LET R == onPanelActivated(B.s, B.h, d, "home", ts)
          IN [B EXCEPT !.s = R.s, !.err = R.err]

----------------------------------------------------------------------------
(* The page and its events *)

\* the observations of a handler start empty
Fresh(S) == [S EXCEPT !.calls = <<>>]

\* Pages: every canvas and panel, or up to MaxMissing of them left out; the
\* subtab marked active in the markup of each section, if any.
Elements == Canvases \cup Panels

PagesWithout(k) ==
  {[canvasEl |-> Canvases \ m, panelEl |-> Panels \ m, gamesSub |-> gs, simsSub |-> ss] :
     m \in {x \in SUBSET Elements : Cardinality(x) <= k},
     gs \in {NoSub, "glider"}, ss \in {NoSub, "projectile"}}

FullPages == PagesWithout(0)
Pages == PagesWithout(MaxMissing)

FrameGaps == {2, 7}
Delays == {3}

\* a demo the specification at hand leaves aside
Idle == [idle |-> TRUE]

SimsIdle == projectile = Idle /\ rc = Idle /\ waves = Idle

DemosIdle == glider = Idle /\ torque = Idle /\ optics = Idle /\ SimsIdle

SchedInit ==
  /\ DemosIdle
  /\ now = 0
  /\ sched = NewSched(0)      \* let lastTs = performance.now()
  /\ handlers = {}
  /\ booted = "no"
  /\ threw = FALSE

\* DOMContentLoaded
Boot ==
  /\ booted = "no"
  /\ LET B == boot(Fresh(sched), dom, now)
     IN /\ sched' = Spent(B.s)
        /\ handlers' = B.h
        /\ booted' = IF B.err THEN "failed" ELSE "done"
        /\ threw' = B.err
  /\ UNCHANGED <<now, dom>>
  /\ UNCHANGED demoVars

\* a click on a .tab button or a [data-tab-jump] link: activateTab(name).  The
\* listeners are attached by initTabs(), the first statement of boot().
TabClick(name) ==
  /\ booted # "no"
  /\ LET R == onPanelActivated(Fresh(sched), handlers, dom, name, now)
     IN /\ sched' = Spent(R.s)
        /\ threw' = R.err
  /\ UNCHANGED <<now, dom, handlers, booted>>
  /\ UNCHANGED demoVars

\* a click on a .subtab button of a section: activateSub(name)
SubtabClick(sectionSelector, name) ==
  /\ booted # "no"
  /\ dom' = IF sectionSelector = "#games" THEN [dom EXCEPT !.gamesSub = name]
            ELSE [dom EXCEPT !.simsSub = name]
  /\ LET R == onSubpanelActivated(Fresh(sched), handlers, sectionSelector, name, now)
     IN /\ sched' = Spent(R.s)
        /\ threw' = R.err
  /\ UNCHANGED <<now, handlers, booted>>
  /\ UNCHANGED demoVars

RECURSIVE runCallbacks(_, _, _, _)
runCallbacks(S, cbs, ts, i) ==
  IF i > Len(cbs) THEN S
  ELSE runCallbacks(_tick(S, cbs[i].runner, ts), cbs, ts, i + 1)

\* A display refresh gap centiseconds after the previous event: the browser
\* takes its list of animation-frame callbacks and runs each with the frame's
\* timestamp.
DisplayRefresh(gap) ==
  /\ now + gap <= MaxNow
  /\ sched.queue # <<>>
  /\ now' = now + gap
  /\ sched' = Spent(runCallbacks([sched EXCEPT !.queue = <<>>, !.calls = <<>>], sched.queue, now + gap, 1))
  /\ threw' = FALSE
  /\ UNCHANGED <<dom, handlers, booted>>
  /\ UNCHANGED demoVars

\* time passes with no frame due (the page shows no running canvas, or an event
\* arrives between two refreshes)
TimePasses(delay) ==
  /\ now + delay <= MaxNow
  /\ now' = now + delay
  /\ sched' = Fresh(sched)
  /\ threw' = FALSE
  /\ UNCHANGED <<dom, handlers, booted>>
  /\ UNCHANGED demoVars

Clicks ==
  \/ \E name \in TabNames \cup UnmappedNames : TabClick(name)
  \/ \E name \in GameSubNames \cup UnmappedNames : SubtabClick("#games", name)
  \/ \E name \in SimSubNames \cup UnmappedNames : SubtabClick("#simulations", name)

Next ==
  \/ Boot
  \/ Clicks
  \/ \E gap \in FrameGaps : DisplayRefresh(gap)
  \/ \E delay \in Delays : TimePasses(delay)

\* the site's own page, with every canvas and panel
Init == SchedInit /\ dom \in FullPages

Spec == Init /\ [][Next]_vars

\* a page that may lack a canvas or a panel: boot and the clicks that follow
PartialInit == SchedInit /\ dom \in Pages

PartialNext == Boot \/ Clicks

SpecPartial == PartialInit /\ [][PartialNext]_vars

\* CanvasRunner on its own: a page that holds NumRunners canvases, after its
\* runners were constructed, under any calls of setRunning.
NumRunners == 2

TrackedRunners == {canvasOrder[i] : i \in 1..NumRunners}

RunnerInit ==
  /\ SchedInit
  /\ dom \in {p \in PagesWithout(Cardinality(Elements)) :
                /\ p.canvasEl = TrackedRunners /\ p.panelEl = Panels
                /\ p.gamesSub = NoSub /\ p.simsSub = NoSub}

Construct ==
  /\ booted = "no"
  /\ sched' = sched
  /\ handlers' = dom.canvasEl
  /\ booted' = "done"
  /\ threw' = FALSE
  /\ UNCHANGED <<now, dom>>
  /\ UNCHANGED demoVars

CallSetRunning(r, run) ==
  /\ booted = "done"
  /\ r \in handlers
  /\ sched' = Spent(setRunning(Fresh(sched), r, run, now))
  /\ threw' = FALSE
  /\ UNCHANGED <<now, dom, handlers, booted>>
  /\ UNCHANGED demoVars

RunnerNext ==
  \/ Construct
  \/ \E r \in Canvases, run \in BOOLEAN : CallSetRunning(r, run)
  \/ \E gap \in FrameGaps : DisplayRefresh(gap)
  \/ \E delay \in Delays : TimePasses(delay)

SpecRunner == RunnerInit /\ [][RunnerNext]_vars

----------------------------------------------------------------------------
(* Numbers.  The demos compute in floating point; the model computes in fixed *)
(* point and truncates toward zero.  Lengths are tenths of a pixel, angles    *)
(* milliradians, fuel hundredths of a percent, times centiseconds.            *)

Unit == 10
Milli == 1000
FuelUnit == 100
TicksPerSecond == 100

Quot(a, b) == IF a >= 0 THEN a \div b ELSE 0 - ((0 - a) \div b)

clamp(x, a, b) == Max(a, Min(b, x))

Vec(x, y) == [x |-> x, y |-> y]

RECURSIVE SqrtBetween(_, _, _)
SqrtBetween(n, lo, hi) ==
  IF lo >= hi THEN lo
  ELSE LET mid == (lo + hi + 1) \div 2
       IN IF mid * mid <= n THEN SqrtBetween(n, mid, hi) ELSE SqrtBetween(n, lo, mid - 1)

\* Math.sqrt, truncated to an integer
ISqrt(n) == SqrtBetween(n, 0, Min(n, 46340))

\* Math.PI, and Math.sin / Math.cos of an angle in milliradians, times 1000
Pi == 3142

WrapAngle(a) == ((a + Pi) % (2 * Pi)) - Pi

SinMilli(a) ==
  LET w == WrapAngle(a)
      x == IF 2 * w > Pi THEN Pi - w ELSE IF 2 * w < 0 - Pi THEN 0 - Pi - w ELSE w
      x2 == (x * x) \div Milli
      s3 == Quot(x * x2, Milli)
      s5 == Quot(s3 * x2, Milli)
      s7 == Quot(s5 * x2, Milli)
  IN clamp(x - Quot(s3, 6) + Quot(s5, 120) - Quot(s7, 5040), 0 - Milli, Milli)

CosMilli(a) == SinMilli(a + Quot(Pi, 2))

----------------------------------------------------------------------------
(* Space-Glider (initGameGlider) *)

\* the canvas: clientWidth x clientHeight in pixels, drawn at devicePixelRatio 1
CanvasW == 300
CanvasH == 200

\* how many outcomes of the random generator the model draws a level from, and
\* how many update steps a behaviour takes
NumLayouts == 2
MaxSteps == 2

G == 1000
MinR2 == 120
Thrust == 120
ShipR == 12
OrbR == 8
OrbScore == 10
FuelFull == 100

\* a point at (fx, fy) percent of the canvas
At(fx, fy) == Vec((CanvasW * Unit * fx) \div 100, (CanvasH * Unit * fy) \div 100)

wellCount(lv) == IF lv = 1 THEN 3 ELSE 5
orbCount(lv) == IF lv = 1 THEN 7 ELSE 12

WellSpots == <<Vec(60, 30), Vec(80, 70), Vec(45, 80), Vec(85, 20), Vec(70, 50)>>
OrbSpots ==
  <<Vec(30, 20), Vec(50, 60), Vec(90, 40), Vec(40, 40), Vec(75, 85), Vec(55, 15),
    Vec(65, 75), Vec(35, 70), Vec(95, 90), Vec(25, 50), Vec(60, 88), Vec(88, 12)>>

\* The k-th outcome of the generator's draws for a level of W wells and O orbs:
\* wells at x in [35%, 90%] of w, y in [15%, 85%] of h, mass in [20000, 40000],
\* radius in [24, 42]; orbs at x in [25%, 95%], y in [10%, 90%].
Layout(lv, k) ==
  [wells |-> [i \in 1..wellCount(lv) |->
                [p |-> At(WellSpots[i].x, WellSpots[i].y - k),
                 m |-> 20000 + 6000 * k,
                 R |-> 24 + 6 * k]],
   orbs |-> [i \in 1..orbCount(lv) |->
               [p |-> At(OrbSpots[i].x, OrbSpots[i].y - k), got |-> FALSE]]]

LayoutIds == 0..(NumLayouts - 1)

NoObs == [kind |-> "none"]

\* resetLevel(lv), the generator's draws being those of layout k
resetLevel(g, lv, k) ==
  [g EXCEPT !.level = lv,
            !.score = 0,
            !.fuel = FuelFull * FuelUnit,
            !.ship = [p |-> At(15, 50), v |-> Vec(0, 0), angle |-> 0],
            !.wells = Layout(lv, k).wells,
            !.orbs = Layout(lv, k).orbs]

Dist2(p, q) == (q.x - p.x) * (q.x - p.x) + (q.y - p.y) * (q.y - p.y)

RECURSIVE gravity(_, _, _)
\* for(const w of wells){ ... ship.a.add(...) }, from well i on
gravity(ship, wells, i) ==
  IF i > Len(wells) THEN Vec(0, 0)
  ELSE LET w == wells[i]
           dx == w.p.x - ship.p.x
           dy == w.p.y - ship.p.y
           r2 == Max(MinR2, (dx * dx + dy * dy) \div (Unit * Unit))
           F == (G * w.m) \div r2
           rest == gravity(ship, wells, i + 1)
       IN Vec(Quot(dx * F, ISqrt(r2)) + rest.x, Quot(dy * F, ISqrt(r2)) + rest.y)

\* let thrust = 0; if(up) thrust = 120; if(shift) thrust *= 1.7  (in tenths)
thrustOf(keys) ==
  LET t == IF "arrowup" \in keys \/ "w" \in keys THEN Thrust * Unit ELSE 0
  IN IF "shift" \in keys THEN (t * 17) \div 10 ELSE t

\* a drain that ignores the boost key
drainPlain(keys) == 2

drainOf(keys) == IF "shift" \in keys THEN 4 ELSE 2

\* the controls: thrust and fuel, turning, the restart key
controls(g, a0, dt, keys, k) ==
  LET t == thrustOf(keys)
      burn == t > 0 /\ g.fuel > 0
      a1 == IF burn
            THEN Vec(a0.x + Quot(CosMilli(g.ship.angle) * t, Milli),
                     a0.y + Quot(SinMilli(g.ship.angle) * t, Milli))
            ELSE a0
      \* fuel - dt*rate: dt centiseconds times a rate per second is hundredths
      fuel1 == IF burn THEN clamp(g.fuel - dt * drainOf(keys), 0, FuelFull * FuelUnit)
               ELSE g.fuel
      left == IF "arrowleft" \in keys \/ "a" \in keys THEN 26 * dt ELSE 0
      right == IF "arrowright" \in keys \/ "d" \in keys THEN 26 * dt ELSE 0
      g1 == [g EXCEPT !.fuel = fuel1, !.ship.angle = @ - left + right]
  IN IF "r" \in keys
     THEN [g |-> resetLevel(g1, g1.level, k), a |-> Vec(0, 0)]   \* a new ship: a = (0,0)
     ELSE [g |-> g1, a |-> a1]

\* ship.v.add(a*dt); ship.p.add(v*dt)
integrate(ship, a, dt) ==
  LET v == Vec(ship.v.x + Quot(a.x * dt, TicksPerSecond),
               ship.v.y + Quot(a.y * dt, TicksPerSecond))
  IN [ship EXCEPT !.v = v,
                  !.p = Vec(ship.p.x + Quot(v.x * dt, TicksPerSecond),
                            ship.p.y + Quot(v.y * dt, TicksPerSecond))]

\* a bounce off an edge the ship also bounces off when it lies on it
bounceOnEdge(ship) ==
  LET bx == ship.p.x <= 0 \/ ship.p.x >= CanvasW * Unit
      by == ship.p.y <= 0 \/ ship.p.y >= CanvasH * Unit
  IN [ship EXCEPT
        !.v = Vec(IF bx THEN Quot(ship.v.x * (0 - 6), 10) ELSE ship.v.x,
                  IF by THEN Quot(ship.v.y * (0 - 6), 10) ELSE ship.v.y),
        !.p = Vec(clamp(ship.p.x, 0, CanvasW * Unit), clamp(ship.p.y, 0, CanvasH * Unit))]

\* if(ship.p.x<0||ship.p.x>c.width){ ship.v.x*=-0.6; ship.p.x=clamp(...) } ...
bounce(ship) ==
  LET bx == ship.p.x < 0 \/ ship.p.x > CanvasW * Unit
      by == ship.p.y < 0 \/ ship.p.y > CanvasH * Unit
  IN [ship EXCEPT
        !.v = Vec(IF bx THEN Quot(ship.v.x * (0 - 6), 10) ELSE ship.v.x,
                  IF by THEN Quot(ship.v.y * (0 - 6), 10) ELSE ship.v.y),
        !.p = Vec(IF bx THEN clamp(ship.p.x, 0, CanvasW * Unit) ELSE ship.p.x,
                  IF by THEN clamp(ship.p.y, 0, CanvasH * Unit) ELSE ship.p.y)]

Sq(x) == x * x

\* dx*dx+dy*dy < (o.r+ship.r)*(o.r+ship.r)
orbHit(ship, o) == Dist2(ship.p, o.p) < Sq((OrbR + ShipR) * Unit)

\* a collection that marks the orbs and forgets the score
collectUnscored(g) ==
  [g EXCEPT !.orbs = [i \in 1..Len(g.orbs) |->
                        IF orbHit(g.ship, g.orbs[i]) THEN [g.orbs[i] EXCEPT !.got = TRUE]
                        ELSE g.orbs[i]]]

collect(g) ==
  LET hit(i) == ~g.orbs[i].got /\ orbHit(g.ship, g.orbs[i])
      n == Cardinality({i \in 1..Len(g.orbs) : hit(i)})
  IN [g EXCEPT !.orbs = [i \in 1..Len(g.orbs) |->
                           IF hit(i) THEN [g.orbs[i] EXCEPT !.got = TRUE] ELSE g.orbs[i]],
               !.score = @ + OrbScore * n]

\* a well test that forgets the ship's radius
wellHitCenter(ship, w) == Dist2(ship.p, w.p) < Sq(w.R * Unit)

\* dx*dx+dy*dy < (w.R+ship.r)*(w.R+ship.r)
wellHit(ship, w) == Dist2(ship.p, w.p) < Sq((w.R + ShipR) * Unit)

\* the wells loop: the first well hit resets the level
collide(g, k) ==
  IF \E i \in 1..Len(g.wells) : wellHit(g.ship, g.wells[i])
  THEN resetLevel(g, g.level, k)
  ELSE g

\* how near the ship is to the nearest well at the wells loop: "overlap" when
\* some centre distance is below wellRadius + shipRadius, "touch" when none is
\* below and some is equal, "apart" otherwise
Nearness(g) ==
  LET gap(i) == Dist2(g.ship.p, g.wells[i].p) - Sq((g.wells[i].R + ShipR) * Unit)
      I == 1..Len(g.wells)
  IN IF \E i \in I : gap(i) < 0 THEN "overlap"
     ELSE IF \E i \in I : gap(i) = 0 THEN "touch"
     ELSE "apart"

\* update(dt, c) with the keys held; k1 and k2 are the generator's draws should
\* the restart key, and then a well, reset the level.  obs records what the
\* step saw: the ship and the number of wells it began with, and at the wells
\* loop the nearness of the ship, the score and the fuel.
update(g, dt, keys, k1, k2) ==
  LET a0 == gravity(g.ship, g.wells, 1)
      C == controls(g, a0, dt, keys, k1)
      g2 == [C.g EXCEPT !.ship = bounce(integrate(C.g.ship, C.a, dt))]
      g3 == collect(g2)
      g4 == collide(g3, k2)
  IN [g4 EXCEPT !.steps = g.steps + 1,
                !.obs = [kind |-> "update", dt |-> dt, keys |-> keys,
                         wells |-> Len(g.wells), before |-> g.ship,
                         nearness |-> Nearness(g3),
                         scoreAt |-> g3.score, fuelAt |-> g3.fuel]]

\* the keys the model presses
GliderKeys == {"arrowup", "shift", "r"}
GliderDts == {0, CapDt}

\* initGameGlider: level = 1, score = 0, fuel = 100, resetLevel(1)
NewGlider(k) ==
  resetLevel([level |-> 1, score |-> 0, fuel |-> FuelFull * FuelUnit, ship |-> Idle,
              wells |-> <<>>, orbs |-> <<>>, keys |-> {}, steps |-> 0, obs |-> NoObs],
             1, k)

\* A game under way: the first n orbs collected, the ship at p with velocity v,
\* turned to the right by a quarter of pi when it moves.
MidGame(k, n, fuel, p, v) ==
  LET g == NewGlider(k)
  IN [g EXCEPT !.score = OrbScore * n,
               !.fuel = fuel,
               !.orbs = [i \in 1..Len(g.orbs) |-> [g.orbs[i] EXCEPT !.got = i <= n]],
               !.ship = [p |-> p, v |-> v,
                         angle |-> IF v = Vec(0, 0) THEN 0 ELSE Pi \div 4]]

\* the same with every well taken away
NoWells(g) == [g EXCEPT !.wells = <<>>]

FirstWell == Layout(1, 0).wells[1]

\* The states an update step is applied to: a new game; games under way with
\* the ship at rest exactly wellRadius + shipRadius from the first well, inside
\* that distance, and far from every well; and games without wells, the ship
\* on the left edge or in the open, moving.
GliderInputs ==
  {NewGlider(k) : k \in LayoutIds}
  \cup {MidGame(0, 1, 50 * FuelUnit,
                Vec(FirstWell.p.x - (FirstWell.R + ShipR) * Unit + off, FirstWell.p.y),
                Vec(0, 0)) : off \in {0, 6 * Unit}}
  \cup {MidGame(0, 2, 1, At(20, 90), Vec(0, 0))}
  \cup {NoWells(MidGame(0, 1, 50 * FuelUnit, p, Vec(0 - 300, 200))) :
          p \in {Vec(0, (CanvasH * Unit) \div 2), At(20, 90)}}

GliderInit ==
  /\ now = 0
  /\ sched = NewSched(0)
  /\ dom \in {d \in FullPages : d.gamesSub = NoSub /\ d.simsSub = NoSub}
  /\ handlers = {}
  /\ booted = "no"
  /\ threw = FALSE
  /\ glider \in GliderInputs
  /\ torque = Idle
  /\ optics = Idle
  /\ SimsIdle

GliderRest == UNCHANGED <<schedVars, torque, optics, simVars>>

\* a frame of the glider's runner: loop(c, ctx, dt)
GliderFrame(dt) ==
  /\ glider.steps < MaxSteps
  /\ \E k1 \in LayoutIds, k2 \in LayoutIds :
       glider' = update(glider, dt, glider.keys, k1, k2)
  /\ GliderRest

KeyDown(key) ==
  /\ key \notin glider.keys
  /\ glider' = [glider EXCEPT !.keys = @ \cup {key}]
  /\ GliderRest

KeyUp(key) ==
  /\ key \in glider.keys
  /\ glider' = [glider EXCEPT !.keys = @ \ {key}]
  /\ GliderRest

GliderReset(kind, lv) ==
  /\ \E k \in LayoutIds :
       glider' = [resetLevel(glider, lv, k) EXCEPT !.obs = [kind |-> kind]]
  /\ GliderRest

\* the "Restart (R)" button, the "Next Level" button, a window resize
RestartClick == GliderReset("restart", glider.level)
NextLevelClick == GliderReset("next", IF glider.level = 1 THEN 2 ELSE 1)
GliderResize == GliderReset("resize", glider.level)

GliderNext ==
  \/ \E dt \in GliderDts : GliderFrame(dt)
  \/ \E key \in GliderKeys : KeyDown(key)
  \/ \E key \in GliderKeys : KeyUp(key)
  \/ RestartClick
  \/ NextLevelClick
  \/ GliderResize

SpecGlider == GliderInit /\ [][GliderNext]_vars

----------------------------------------------------------------------------
(* Torque-Tycoon (initGameTorque).  Positions along the lever are pixels,     *)
(* masses kilograms, angles ten-thousandths of a radian.                      *)

AngleUnit == 10000

\* how many masses the lever carries at most, and how many frames a behaviour has
MaxMasses == 2
MaxFrames == 2

gravity981 == 981
stiffness == 18000
Tolerance == 200
FixedMass == 10
DefaultMass == 8

\* Math.min(700, w*0.8)
leverLength == Min(700, (CanvasW * 8) \div 10)

\* rng.range(-15, 15) * Math.PI/180: some outcomes, in ten-thousandths of a radian
Targets == {0 - 1500, 100, 2000}

\* the slider's values the model sets, of 1..30, and where the mouse goes along
\* the lever, relative to the pivot
MassChoices == {DefaultMass, 30}
MouseXs == {0 - 200, 0, 100}

\* 1000 * Math.exp(-6*dt), dt in centiseconds
ExpMilli(dt) ==
  LET x == 60 * dt
  IN Milli - x + ((x * x) \div (2 * Milli)) - ((x * x * x) \div (6 * Milli * Milli))

lerp(a, b, tMilli) == a + Quot((b - a) * tMilli, Milli)

RECURSIVE sumTorque(_, _)
\* tau += ms.x * ms.m * g, in hundredths, from mass i on
sumTorque(masses, i) ==
  IF i > Len(masses) THEN 0
  ELSE masses[i].x * masses[i].m * gravity981 + sumTorque(masses, i + 1)

\* sumTorque()/stiffness
restAngle(masses) == Quot(sumTorque(masses, 1) * (AngleUnit \div 100), stiffness)

Abs(x) == IF x < 0 THEN 0 - x ELSE x

\* a test of the angle the lever is drawn at
targetReachedDrawn(t) == Abs(t.lever.angle - t.lever.target) < Tolerance

\* targetReached()
targetReached(t) == Abs(restAngle(t.masses) - t.lever.target) < Tolerance

\* updateUI(): the badge's class
updateUI(t) == [t EXCEPT !.badge = IF targetReached(t) THEN "success" ELSE "warn"]

\* reset(), the generator drawing the target
reset(t, target) ==
  [t EXCEPT !.lever = [angle |-> 0, target |-> target, length |-> leverLength],
            !.masses = <<[x |-> 0 - (leverLength \div 3), m |-> FixedMass, fixed |-> TRUE]>>]

\* step(dt)
step(t, dt) ==
  updateUI([t EXCEPT !.lever.angle =
                       lerp(t.lever.angle, restAngle(t.masses), Milli - ExpMilli(dt))])

\* initGameTorque: the badge "Target: 0 deg" of class warn, pendingMass = 8, reset()
NewTorque(target) ==
  reset([lever |-> [angle |-> 0, target |-> 0, length |-> 600], masses |-> <<>>,
         dragging |-> 0, pendingMass |-> DefaultMass, badge |-> "warn",
         frames |-> 0, last |-> "init"],
        target)

TorqueInit ==
  /\ now = 0
  /\ sched = NewSched(0)
  /\ dom \in {d \in FullPages : d.gamesSub = NoSub /\ d.simsSub = NoSub}
  /\ handlers = {}
  /\ booted = "no"
  /\ threw = FALSE
  /\ glider = Idle
  /\ torque \in {NewTorque(target) : target \in Targets}
  /\ optics = Idle
  /\ SimsIdle

TorqueRest == UNCHANGED <<schedVars, glider, optics, simVars>>

Did(t, what) == [t EXCEPT !.last = what]

\* a frame of the lever's runner: step(dt); draw(c, ctx)
TorqueFrame(dt) ==
  /\ torque.frames < MaxFrames
  /\ torque' = Did([step(torque, dt) EXCEPT !.frames = @ + 1], "step")
  /\ TorqueRest

\* the "Reset" buttons and a window resize
TorqueReset ==
  /\ \E target \in Targets : torque' = Did(reset(torque, target), "reset")
  /\ TorqueRest

\* the slider
SetPendingMass(v) ==
  /\ torque.pendingMass # v
  /\ torque' = Did([torque EXCEPT !.pendingMass = v], "slider")
  /\ TorqueRest

\* the "Add mass" button
AddMass ==
  /\ Len(torque.masses) < MaxMasses
  /\ torque' = Did([torque EXCEPT !.masses =
                      Append(@, [x |-> 0, m |-> torque.pendingMass, fixed |-> FALSE])],
                   "add")
  /\ TorqueRest

\* mousedown with the pointer on the lever at mx from the pivot: the first
\* mass within 16 pixels that is not fixed is dragged
MouseDown(mx) ==
  LET near == {i \in 1..Len(torque.masses) :
                 Abs(mx - torque.masses[i].x) < 16 /\ ~torque.masses[i].fixed}
  IN /\ near # {}
     /\ torque.dragging = 0
     /\ torque' = Did([torque EXCEPT !.dragging = CHOOSE i \in near : \A j \in near : i <= j],
                      "mousedown")
     /\ TorqueRest

MouseUp ==
  /\ torque.dragging # 0
  /\ torque' = Did([torque EXCEPT !.dragging = 0], "mouseup")
  /\ TorqueRest

\* mousemove: dragging.x = clamp(mx - lever.cx, -length/2, length/2)
MouseMove(mx) ==
  /\ torque.dragging # 0
  /\ torque' = Did([torque EXCEPT !.masses[torque.dragging].x =
                      clamp(mx, 0 - (torque.lever.length \div 2), torque.lever.length \div 2)],
                   "mousemove")
  /\ TorqueRest

TorqueNext ==
  \/ \E dt \in GliderDts : TorqueFrame(dt)
  \/ TorqueReset
  \/ \E v \in MassChoices : SetPendingMass(v)
  \/ AddMass
  \/ \E mx \in MouseXs : MouseDown(mx)
  \/ MouseUp
  \/ \E mx \in MouseXs : MouseMove(mx)

SpecTorque == TorqueInit /\ [][TorqueNext]_vars

----------------------------------------------------------------------------
(* Mirror-Madness (initGameOptics).  Positions are pixels, angles degrees,    *)
(* unit vectors thousandths.  The model's rays run along the axes and its     *)
(* mirrors stand at multiples of 45 degrees, where this arithmetic is exact.  *)

MaxDepth == 4
FarLen == 2000
MirrorLen == 160
TargetR == 14

\* the angle in (-180, 180]
NormDeg(a) == ((a + 179) % 360) - 179

\* 1000 * Math.cos and 1000 * Math.sin of a multiple of 45 degrees
cosDeg(a) ==
  LET n == NormDeg(a)
      m == IF n < 0 THEN 0 - n ELSE n
  IN IF m = 0 THEN Milli
     ELSE IF m = 45 THEN 707
     ELSE IF m = 90 THEN 0
     ELSE IF m = 135 THEN 0 - 707
     ELSE 0 - Milli

sinDeg(a) == cosDeg(a - 90)

Directions == {0 - 135, 0 - 90, 0 - 45, 0, 45, 90, 135, 180}

\* Math.atan2(v.y, v.x), in degrees, of a vector of length 1000
atan2Deg(v) == CHOOSE a \in Directions : cosDeg(a) = v.x /\ sinDeg(a) = v.y

cross(v, w) == v.x * w.y - v.y * w.x
dot(v, w) == v.x * w.x + v.y * w.y
Sgn(x) == IF x > 0 THEN 1 ELSE IF x < 0 THEN 0 - 1 ELSE 0

NoHit == [hit |-> FALSE]

\* segmentRayIntersection(a, b, p, d), d in thousandths.  A quotient that is
\* zero in exact arithmetic comes out of the floating-point division as zero or
\* as a tiny number of either sign; nudge is the sign it comes out with.
segmentRayIntersection(a, b, p, d, nudge) ==
  LET r == Vec(b.x - a.x, b.y - a.y)
      denom == cross(d, r)
      ap == Vec(a.x - p.x, a.y - p.y)
      tn == cross(ap, r)
      un == cross(ap, d)
      tSign == IF tn = 0 THEN nudge ELSE Sgn(tn) * Sgn(denom)
      uOk == IF denom > 0 THEN 0 <= un /\ un <= denom ELSE denom <= un /\ un <= 0
  IN IF denom = 0 THEN NoHit
     ELSE IF tSign >= 0 /\ uOk THEN [hit |-> TRUE, t |-> Quot(Milli * tn, denom)]
     ELSE NoHit

\* the mirror's end points m.p -/+ t*len/2
mirrorEnd(m, side) ==
  Vec(m.p.x + Quot(cosDeg(m.dir) * side * (m.len \div 2), Milli),
      m.p.y + Quot(sinDeg(m.dir) * side * (m.len \div 2), Milli))

\* a mirror along an axis has end points the doubles hold exactly
Oblique(m) == cosDeg(m.dir) # 0 /\ sinDeg(m.dir) # 0

rayHit(m, p, d, nudge) ==
  segmentRayIntersection(mirrorEnd(m, 0 - 1), mirrorEnd(m, 1), p, d,
                         IF Oblique(m) THEN nudge ELSE 0)

RECURSIVE nearest(_, _, _, _, _, _)
\* for(const m of mirrors){ ... if(h && (!best || h.t < best.t)) best = ... },
\* from mirror i on; best is the index of the mirror, 0 for none
nearest(mirrors, p, d, nudge, i, best) ==
  IF i > Len(mirrors) THEN best
  ELSE LET h == rayHit(mirrors[i], p, d, nudge)
           better == h.hit /\ (best = 0 \/ h.t < rayHit(mirrors[best], p, d, nudge).t)
       IN nearest(mirrors, p, d, nudge, i + 1, IF better THEN i ELSE best)

\* d - 2 (d . n) n, n the unit normal tangent.perp().norm()
reflect(d, m) ==
  LET N == Vec(0 - sinDeg(m.dir), cosDeg(m.dir))
      n2 == dot(N, N)
  IN Vec(d.x - Quot(2 * dot(d, N) * N.x, n2), d.y - Quot(2 * dot(d, N) * N.y, n2))

NoNormal == Vec(0, 0)

\* a cap one bounce later than the program's
spentLater(depth) == depth > MaxDepth + 1

\* if(depth>4) return [{p:start, n:null}]
spent(depth) == depth > MaxDepth

RECURSIVE castRay(_, _, _, _, _)
\* castRay(start, dir, depth); under holds the depths at which a zero quotient
\* at an oblique mirror comes out below zero
castRay(mirrors, start, dir, depth, under) ==
  IF spent(depth) THEN <<[p |-> start, n |-> NoNormal]>>
  ELSE LET d == Vec(cosDeg(dir), sinDeg(dir))
           nudge == IF depth \in under THEN 0 - 1 ELSE 0
           best == nearest(mirrors, start, d, nudge, 1, 0)
       IN IF best # 0
          THEN LET t == rayHit(mirrors[best], start, d, nudge).t
                   hitPoint == Vec(start.x + Quot(d.x * t, Milli),
                                   start.y + Quot(d.y * t, Milli))
                   normal == Vec(0 - sinDeg(mirrors[best].dir), cosDeg(mirrors[best].dir))
               IN <<[p |-> start, n |-> NoNormal], [p |-> hitPoint, n |-> normal]>>
                  \o castRay(mirrors, hitPoint, atan2Deg(reflect(d, mirrors[best])),
                             depth + 1, under)
          ELSE <<[p |-> start, n |-> NoNormal],
                 [p |-> Vec(start.x + Quot(d.x * FarLen, Milli),
                            start.y + Quot(d.y * FarLen, Milli)),
                  n |-> NoNormal]>>

\* distToSegment(p, a, b) < r; a segment of no length gives NaN, which is not
\* below r
nearSegment(p, a, b, r) ==
  LET ab == Vec(b.x - a.x, b.y - a.y)
      pa == Vec(p.x - a.x, p.y - a.y)
      len2 == dot(ab, ab)
      along == dot(pa, ab)
  IN IF len2 = 0 THEN FALSE
     ELSE IF along <= 0 THEN dot(pa, pa) < r * r
     ELSE IF along >= len2 THEN Dist2(p, b) < r * r
     ELSE Abs(cross(ab, pa)) < r * ISqrt(len2)

targetHit(pts, tg) ==
  \E i \in 1..(Len(pts) - 1) : nearSegment(tg.p, pts[i].p, pts[i + 1].p, tg.r)

SliderDegs == {0 - 90, 0 - 45, 0, 45, 90}

\* where the beam starts and where it points; the page's source is at (140, 120)
SourcePoints == {Vec(140, 120), Vec(280, 120), Vec(140, 220)}
SourceDirs == {0, 90}

\* initGameOptics: two mirrors, a target, the source
NewOptics(sp, sdir) ==
  [mirrors |-> <<[p |-> Vec(280, 300), dir |-> 0, len |-> MirrorLen],
                 [p |-> Vec(640, 220), dir |-> 45, len |-> MirrorLen]>>,
   target |-> [p |-> Vec(820, 360), r |-> TargetR, hit |-> FALSE],
   source |-> [p |-> sp, dir |-> sdir],
   pts |-> <<>>,
   last |-> "init"]

OpticsInit ==
  /\ now = 0
  /\ sched = NewSched(0)
  /\ dom \in {d \in FullPages : d.gamesSub = NoSub /\ d.simsSub = NoSub}
  /\ handlers = {}
  /\ booted = "no"
  /\ threw = FALSE
  /\ glider = Idle
  /\ torque = Idle
  /\ optics \in {NewOptics(sp, sdir) : sp \in SourcePoints, sdir \in SourceDirs}
  /\ SimsIdle

OpticsRest == UNCHANGED <<schedVars, glider, torque, simVars>>

\* a frame of the optics runner: draw(c, ctx) casts the beam and checks the target
OpticsDraw ==
  /\ \E under \in SUBSET (1..MaxDepth) :
       LET pts == castRay(optics.mirrors, optics.source.p, optics.source.dir, 0, under)
       IN optics' = [optics EXCEPT !.pts = pts,
                                   !.target.hit = targetHit(pts, optics.target),
                                   !.last = "draw"]
  /\ OpticsRest

\* a mirror's slider: m.dir = v*Math.PI/180
SetMirrorAngle(i, v) ==
  /\ optics.mirrors[i].dir # v
  /\ optics' = [optics EXCEPT !.mirrors[i].dir = v, !.last = "slider"]
  /\ OpticsRest

\* the "Reset" button
OpticsReset ==
  /\ optics' = [optics EXCEPT !.mirrors[1].dir = 0, !.mirrors[2].dir = 45,
                              !.target.hit = FALSE, !.last = "reset"]
  /\ OpticsRest

OpticsNext ==
  \/ OpticsDraw
  \/ \E i \in 1..2, v \in SliderDegs : SetMirrorAngle(i, v)
  \/ OpticsReset

SpecOptics == OpticsInit /\ [][OpticsNext]_vars

----------------------------------------------------------------------------
(* Projectile Motion (initSimProjectile).  Positions and velocities are       *)
(* ten-thousandths of a metre (per second), g hundredths of a metre per       *)
(* second squared, the drag coefficient thousandths, the angle degrees, the   *)
(* integration steps milliseconds.  y grows downward: a shot flies at y < 0.  *)

ProjUnit == 10000
MaxSamples == 400
GenStepMs == 20
SimStepMs == 16

\* the greatest elapsed time state.t is followed to (only t === 0 is read), how
\* many times Fire is pressed, and how many sliders are moved during a flight
MaxElapsed == 2
MaxFires == 2
MaxEdits == 1

\* Math.sin(a*Math.PI/180) for a of 0..180 degrees, in ten-thousandths
sinOfDeg(a) ==
  LET b == IF a > 90 THEN 180 - a ELSE a
      x == (b * 31416) \div 180
      x2 == (x * x) \div ProjUnit
      s3 == (x * x2) \div ProjUnit
      s5 == (s3 * x2) \div ProjUnit
      s7 == ((s5 \div 10) * x2) \div Milli
      s9 == ((s7 \div 100) * x2) \div 100
  IN Min(ProjUnit, x - (s3 \div 6) + (s5 \div 120) - (s7 \div 5040) + (s9 \div 362880))

\* Math.cos(a*Math.PI/180) for a of 0..90 degrees
cosOfDeg(a) == sinOfDeg(90 - a)

\* { x:0, y:0, vx: v0*Math.cos(ang), vy: -v0*Math.sin(ang) }
launch(st) ==
  [x |-> 0, y |-> 0,
   vx |-> st.v0 * cosOfDeg(st.angle),
   vy |-> 0 - st.v0 * sinOfDeg(st.angle)]

\* Math.hypot(vx, vy), in hundredths
hypot(vx, vy) == ISqrt(Sq(Quot(vx, 100)) + Sq(Quot(vy, 100)))

\* drag*v*u for a velocity component u
dragOn(st, v, u) == IF st.drag = 0 THEN 0 ELSE Quot(v * Quot(u, 100), Milli) * st.drag

\* v = hypot(vx,vy); ax = -drag*v*vx; ay = g - drag*v*vy;
\* vx += ax*dt; vy += ay*dt; x += vx*dt; y += vy*dt     (dt = ms/1000)
eulerStep(st, b, ms) ==
  LET v == hypot(b.vx, b.vy)
      ax == 0 - dragOn(st, v, b.vx)
      ay == st.g * (ProjUnit \div 100) - dragOn(st, v, b.vy)
      vx == b.vx + Quot(ax * ms, Milli)
      vy == b.vy + Quot(ay * ms, Milli)
  IN [x |-> b.x + Quot(vx * ms, Milli), y |-> b.y + Quot(vy * ms, Milli),
      vx |-> vx, vy |-> vy]

RECURSIVE samples(_, _, _)
\* n iterations of generate()'s loop without its break, begun with the body b:
\* the n points pushed and the body after them
samples(st, b, n) ==
  IF n = 1 THEN [pts |-> <<[x |-> b.x, y |-> b.y]>>, next |-> eulerStep(st, b, GenStepMs)]
  ELSE LET L == samples(st, b, n \div 2)
           R == samples(st, L.next, n - (n \div 2))
       IN [pts |-> L.pts \o R.pts, next |-> R.next]

\* if(y>0 && i>0 && state.points[i-1].y<0) break;  at the point pushed i-th, i >= 2
breaksAt(pts, i) == pts[i].y > 0 /\ pts[i - 1].y < 0

RECURSIVE generateFrom(_, _, _, _)
\* the loop of generate() from iteration i on, b the body at that iteration,
\* taken sixteen iterations at a time up to the first break
generateFrom(st, points, b, i) ==
  IF i >= MaxSamples THEN points
  ELSE LET n == Min(16, MaxSamples - i)
           S == samples(st, b, n)
           pts == points \o S.pts
           stops == {j \in Max(2, i + 1)..(i + n) : breaksAt(pts, j)}
       IN IF stops # {} THEN SubSeq(pts, 1, CHOOSE j \in stops : \A k \in stops : j <= k)
          ELSE generateFrom(st, pts, S.next, i + n)

\* generate()
generate(st) == [st EXCEPT !.points = generateFrom(st, <<>>, launch(st), 0)]

\* Math.floor(dt/0.016), dt in centiseconds
flightIters(dt) == (dt * 10) \div SimStepMs

RECURSIVE fly(_, _, _)
\* the for loop of draw: n more iterations
fly(st, b, n) ==
  IF n = 0 THEN [sim |-> b, running |-> TRUE]
  ELSE LET b1 == eulerStep(st, b, SimStepMs)
       IN IF b1.y > 0 /\ b1.vy > 0 THEN [sim |-> b1, running |-> FALSE]
          ELSE fly(st, b1, n - 1)

\* draw(c, ctx, dt): the animated projectile
projectileDraw(st, dt) ==
  IF ~st.running THEN st
  ELSE LET b0 == IF st.t = 0 THEN launch(st) ELSE st.sim
           f == fly(st, b0, flightIters(dt))
       IN [st EXCEPT !.sim = f.sim, !.running = f.running,
                     !.t = Min(st.t + dt, MaxElapsed)]

NoSim == [x |-> 0, y |-> 0, vx |-> 0, vy |-> 0]

\* initSimProjectile with the sliders at v0, angle, g, drag: state, generate()
NewProjectile(v0, angle, g, drag) ==
  generate([v0 |-> v0, angle |-> angle, g |-> g, drag |-> drag, running |-> FALSE,
            t |-> 0, points |-> <<>>, sim |-> NoSim, fires |-> 0, edits |-> 0,
            frame |-> 0])

\* a slider's onInput: state.<field> = v; if(!state.running) generate()
setSlider(st, field, v) ==
  LET st1 == [st EXCEPT ![field] = v]
  IN IF st.running THEN [st1 EXCEPT !.edits = @ + 1] ELSE generate(st1)

ProjRest == UNCHANGED <<schedVars, glider, torque, optics, rc, waves>>

MoveSlider(field, v) ==
  /\ projectile[field] # v
  /\ projectile.running => projectile.edits < MaxEdits
  /\ projectile' = setSlider(projectile, field, v)
  /\ ProjRest

\* the Fire button
Fire ==
  /\ projectile.fires < MaxFires
  /\ projectile' = [projectile EXCEPT !.running = TRUE, !.t = 0, !.points = <<>>,
                                      !.fires = @ + 1, !.edits = 0]
  /\ ProjRest

\* the Reset button
ProjReset ==
  /\ projectile' = generate([projectile EXCEPT !.running = FALSE])
  /\ ProjRest

\* a frame of the simulation's runner; frame is the parity of the frames drawn
ProjFrame(dt) ==
  /\ projectile' = [projectileDraw(projectile, dt) EXCEPT !.frame = 1 - @]
  /\ ProjRest

\* the page before boot, the games left aside
GamesAside ==
  /\ now = 0
  /\ sched = NewSched(0)
  /\ dom \in {d \in FullPages : d.gamesSub = NoSub /\ d.simsSub = NoSub}
  /\ handlers = {}
  /\ booted = "no"
  /\ threw = FALSE
  /\ glider = Idle /\ torque = Idle /\ optics = Idle

ProjSchedInit ==
  /\ GamesAside
  /\ rc = Idle /\ waves = Idle

\* The sliders' ranges: speed 5..100, angle 5..85, gravity 1..20 (default
\* 9.81), drag 0..0.2.
RangeSpeeds == {5, 40, 100}
RangeAngles == {5, 45, 85}
RangeGravities == {100, 980, 981, 2000}
RangeDrags == {0, 5, 200}

\* the precomputed path under the sliders, no shot fired
TrajInit ==
  /\ ProjSchedInit
  /\ projectile = NewProjectile(40, 45, 981, 0)

TrajNext ==
  \/ \E v \in RangeSpeeds : MoveSlider("v0", v)
  \/ \E v \in RangeAngles : MoveSlider("angle", v)
  \/ \E v \in RangeGravities : MoveSlider("g", v)
  \/ \E v \in RangeDrags : MoveSlider("drag", v)
  \/ ProjReset

SpecTrajectory == TrajInit /\ [][TrajNext]_vars

\* shots short enough to follow to the ground, and the frame deltas of a
\* 100 Hz, a 50 Hz and a 20 Hz refresh, in centiseconds
FlightSpeeds == {5}
FlightAngles == {5, 10}
FlightGravities == {1000, 2000}
FlightDrags == {0, 200}
ProjDts == {1, 2, CapDt}

FlightInit ==
  /\ ProjSchedInit
  /\ projectile \in {NewProjectile(v, a, g, k) :
                       v \in FlightSpeeds, a \in FlightAngles,
                       g \in FlightGravities, k \in FlightDrags}

FlightNext ==
  \/ \E dt \in ProjDts : ProjFrame(dt)
  \/ Fire
  \/ ProjReset
  \/ \E v \in FlightAngles : MoveSlider("angle", v)
  \/ \E v \in FlightGravities : MoveSlider("g", v)
  \/ \E v \in FlightDrags : MoveSlider("drag", v)

\* the simulation's runner keeps running: frames keep coming
SpecFlight ==
  FlightInit /\ [][FlightNext]_vars /\ WF_vars(\E dt \in ProjDts : ProjFrame(dt))

----------------------------------------------------------------------------
(* RC Circuit (initSimRC).  R is ohms, C microfarads, V tenths of a volt, the *)
(* elapsed time centiseconds.                                                 *)

\* the elapsed time a behaviour is followed to
MaxRcTime == 8

\* values of the three sliders: 100..10000 ohm, 1e-6..0.01 F, 1..12 V
RcParams ==
  [R |-> {100, 2000, 10000}, C |-> {1, 470, 10000}, V |-> {10, 50, 120}]

RcDts == {0, 2, CapDt}

\* a mode toggle that keeps the elapsed time
toggleKeepTime(st) == [st EXCEPT !.charging = ~@]

\* the mode button: state.charging = !state.charging; state.t = 0
toggleMode(st) == [st EXCEPT !.charging = ~@, !.t = 0]

\* the Reset button: state.t = 0
resetTime(st) == [st EXCEPT !.t = 0]

\* a slider's onInput: state.R = v, state.C = v, state.V = v
setParam(st, field, v) == [st EXCEPT ![field] = v]

\* draw(c, ctx, dt): the curve and the marker are painted, then state.t += dt
rcDraw(st, dt) == [st EXCEPT !.t = @ + dt]

\* initSimRC: state
NewRc ==
  [R |-> 2000, C |-> 470, V |-> 50, t |-> 0, charging |-> TRUE, running |-> TRUE,
   last |-> [op |-> "init", t |-> 0]]

RcInit ==
  /\ GamesAside
  /\ projectile = Idle
  /\ rc = NewRc
  /\ waves = Idle

RcRest == UNCHANGED <<schedVars, glider, torque, optics, projectile, waves>>

\* last names the handler that ran and the elapsed time it found
RcDid(st, op) == [st EXCEPT !.last = [op |-> op, t |-> rc.t]]

RcFrame(dt) ==
  /\ rc.t + dt <= MaxRcTime
  /\ rc' = RcDid(rcDraw(rc, dt), "frame")
  /\ RcRest

RcToggle ==
  /\ rc' = RcDid(toggleMode(rc), "toggle")
  /\ RcRest

RcReset ==
  /\ rc' = RcDid(resetTime(rc), "reset")
  /\ RcRest

RcEdit(field, v) ==
  /\ rc[field] # v
  /\ rc' = RcDid(setParam(rc, field, v), "edit")
  /\ RcRest

RcNext ==
  \/ \E dt \in RcDts : RcFrame(dt)
  \/ RcToggle
  \/ RcReset
  \/ \E field \in {"R", "C", "V"} : \E v \in RcParams[field] : RcEdit(field, v)

SpecRC == RcInit /\ [][RcNext]_vars

----------------------------------------------------------------------------
(* Wave Interference (initSimWaves).  Lengths are tenths of a pixel, phases   *)
(* milliradians, k hundred-thousandths of a radian per pixel, the intensity   *)
(* thousandths, the elapsed time centiseconds.                                *)

\* the elapsed time a behaviour is followed to
MaxWaveTime == 4

TwoPi == 6283

\* values of the three sliders: 20..80 px, 60..200 px, 20..120 px/s
WaveParams ==
  [lambda |-> {20, 40, 80}, spacing |-> {60, 120, 200}, speed |-> {20, 60, 120}]

\* the pixels (x, y) whose colour the model follows, of the w*h the loop paints
SamplePixels == {Vec(105, 100), Vec(130, 100), Vec(185, 100), Vec(130, 40)}

\* 2*Math.PI/lambda
waveNumber(lambda) == 628319 \div lambda

\* s1 and s2: (w*0.35, h*0.5 -/+ spacing/2)
sourceAt(st, side) ==
  Vec((CanvasW * Unit * 35) \div 100,
      (CanvasH * Unit) \div 2 + side * ((st.spacing * Unit) \div 2))

\* Math.hypot(x - s.x, y - s.y)
radius(px, src) == ISqrt(Sq(px.x * Unit - src.x) + Sq(px.y * Unit - src.y))

\* phase = state.k*(r1 + r2) - omega*state.t, omega = 2*Math.PI*speed/lambda
phaseAt(st, px) ==
  LET r1 == radius(px, sourceAt(st, 0 - 1))
      r2 == radius(px, sourceAt(st, 1))
      omega == (TwoPi * st.speed) \div st.lambda
  IN Quot(st.k * (r1 + r2), Milli) - Quot(omega * st.t, TicksPerSecond)

\* I = 0.5 + 0.5*Math.cos(phase)
intensity(phase) == 500 + Quot(CosMilli(phase), 2)

\* the pixel's green channel: Math.floor(lerp(16, 220, I))
paint(st, px) ==
  LET phase == phaseAt(st, px)
  IN [phase |-> phase, I |-> intensity(phase),
      col |-> 16 + (204 * intensity(phase)) \div Milli]

\* draw(c, ctx, dt)
wavesDraw(st, dt) ==
  [st EXCEPT !.img = [px \in SamplePixels |-> paint(st, px)],
             !.paintedAt = st.t,
             !.t = @ + dt]

\* the Wavelength slider also sets state.k
setWaveParam(st, field, v) ==
  IF field = "lambda" THEN [st EXCEPT !.lambda = v, !.k = waveNumber(v)]
  ELSE [st EXCEPT ![field] = v]

NoPaint == [phase |-> 0, I |-> 0, col |-> 0]

\* initSimWaves: state; nothing is painted yet
NewWaves ==
  [lambda |-> 40, spacing |-> 120, k |-> waveNumber(40), running |-> TRUE, t |-> 0,
   speed |-> 60, img |-> [px \in SamplePixels |-> NoPaint], paintedAt |-> 0 - 1]

WavesInit ==
  /\ GamesAside
  /\ projectile = Idle
  /\ rc = Idle
  /\ waves = NewWaves

WavesRest == UNCHANGED <<schedVars, glider, torque, optics, projectile, rc>>

WavesFrame(dt) ==
  /\ waves.t + dt <= MaxWaveTime
  /\ waves' = wavesDraw(waves, dt)
  /\ WavesRest

WavesEdit(field, v) ==
  /\ waves[field] # v
  /\ waves' = setWaveParam(waves, field, v)
  /\ WavesRest

WavesNext ==
  \/ \E dt \in {0, 2} : WavesFrame(dt)
  \/ \E field \in {"lambda", "spacing", "speed"} :
       \E v \in WaveParams[field] : WavesEdit(field, v)

SpecWaves == WavesInit /\ [][WavesNext]_vars

----------------------------------------------------------------------------
(* Properties *)

RunningSet == {c \in Canvases : sched.running[c]}

Calls == {sched.calls[i] : i \in 1..Len(sched.calls)}

\* C1: once setRunning(false) has returned for a runner, no draw callback of
\* that runner is made until setRunning(true) is called on it.
C1_NoDrawAfterStop == \A call \in Calls : ~call.afterStop

\* a display refresh draws another runner while this one, stopped by
\* setRunning(false), stays silent
C1_Witness ==
  \E r \in handlers :
    /\ sched.awaitStart[r]
    /\ Calls # {}
    /\ \A call \in Calls : call.runner # r /\ call.gap > 0

\* C2: the dt of every draw callback is min(0.05 s, the time since the same
\* runner's previous draw callback, or since its start), and is not negative.
C2_DtIsOwnGap == \A call \in Calls : call.dt = Min(CapDt, call.gap) /\ call.dt >= 0

\* what the claim C3 maps a tab name and a subtab name to
C3_TabSet(d, name) ==
  CASE name = "home" -> {"home-orbit"}
    [] name = "games" /\ d.gamesSub = "glider" -> {"game-glider"}
    [] name = "games" /\ d.gamesSub = "torque" -> {"game-torque"}
    [] name = "games" /\ d.gamesSub = "optics" -> {"game-optics"}
    [] name = "simulations" /\ d.simsSub = "projectile" -> {"sim-projectile"}
    [] name = "simulations" /\ d.simsSub = "pendulum" -> {"sim-pendulum"}
    [] name = "simulations" /\ d.simsSub = "rc" -> {"sim-rc"}
    [] name = "simulations" /\ d.simsSub = "waves" -> {"sim-waves"}
    [] OTHER -> {}

C3_SubSet(name) ==
  CASE name = "glider" -> {"game-glider"}
    [] name = "torque" -> {"game-torque"}
    [] name = "optics" -> {"game-optics"}
    [] name = "projectile" -> {"sim-projectile"}
    [] name = "pendulum" -> {"sim-pendulum"}
    [] name = "rc" -> {"sim-rc"}
    [] name = "waves" -> {"sim-waves"}
    [] OTHER -> {}

\* C3: after a tab or subtab activation the running canvases, among all eight,
\* are exactly the set mapped to the name, empty for an unmapped name, and no
\* error is raised.
C3_ExactlyMapped ==
  [][/\ \A name \in TabNames \cup UnmappedNames :
          TabClick(name) => RunningSet' = C3_TabSet(dom, name) /\ ~threw'
     /\ \A name \in GameSubNames \cup UnmappedNames :
          SubtabClick("#games", name) => RunningSet' = C3_SubSet(name) /\ ~threw'
     /\ \A name \in SimSubNames \cup UnmappedNames :
          SubtabClick("#simulations", name) => RunningSet' = C3_SubSet(name) /\ ~threw'
    ]_vars

\* C4: after boot, at most one of the three games canvases runs and at most one
\* of the four simulation canvases runs.
C4_OnePerGroup ==
  booted # "no" =>
    /\ Cardinality(RunningSet \cap SeqToSet(gameCanvases)) <= 1
    /\ Cardinality(RunningSet \cap SeqToSet(simCanvases)) <= 1

\* the torque subtab was activated on the games tab: its canvas runs alone
C4_Witness ==
  /\ booted = "done"
  /\ dom.gamesSub = "torque"
  /\ RunningSet = {"game-torque"}

FullPage(d) == d.canvasEl = Canvases /\ d.panelEl = Panels

\* C5: when boot() completes on a page with every canvas and panel, home-orbit
\* is the one running scheduler, and the seven game and simulation schedulers
\* are stopped and have made no draw callback.
C5_BootStartsOnlyHome ==
  [][(Boot /\ FullPage(dom)) =>
       /\ booted' = "done"
       /\ {c \in Canvases : sched'.running[c]} = {"home-orbit"}
       /\ \A i \in 1..Len(sched'.calls) : sched'.calls[i].runner = "home-orbit"
    ]_vars

\* boot has completed on the full page: home-orbit has drawn its first frame
\* and runs, the seven other runners exist and are stopped
C5_Witness ==
  /\ booted = "done"
  /\ FullPage(dom)
  /\ handlers = Canvases
  /\ RunningSet = {"home-orbit"}
  /\ Len(sched.calls) = 1
  /\ sched.calls[1].runner = "home-orbit"
  /\ sched.calls[1].gap = 0
  /\ \A c \in Canvases \ {"home-orbit"} : sched.awaitStart[c]

Demos == Canvases \ {"home-orbit"}

CanInit(d, c) == c \in d.canvasEl /\ uiOf[c] \in d.panelEl

\* C6: a demo initializer whose canvas or panel is absent skips its setup
\* without an error and leaves its canvasHandlers entry null, and boot goes on
\* to initialize the remaining demos and to activate the home tab.
C6_SkipsSilently ==
  [][Boot =>
       \A c \in Demos :
         ~CanInit(dom, c) =>
           /\ ~threw'
           /\ c \notin handlers'
           /\ \A o \in Demos : CanInit(dom, o) => o \in handlers'
           /\ "home-orbit" \in dom.canvasEl => sched'.running["home-orbit"]
    ]_vars

\* the number of frame callbacks of runner r the browser holds
Pending(r) == Cardinality({i \in 1..Len(sched.queue) : sched.queue[i].runner = r})

\* the number of draws of runner r in the event just handled
DrawsOf(r) == Cardinality({i \in 1..Len(sched.calls) : sched.calls[i].runner = r})

\* C18 -- between events every runner has exactly one pending frame callback
\* if it is running and none if it is stopped, whatever calls of
\* setRunning(true) and setRunning(false), repeated ones included, and frame
\* callbacks came before; no display refresh draws a runner more than once.
C18_OnePendingFrame ==
  \A r \in Canvases :
    /\ Pending(r) = IF sched.running[r] THEN 1 ELSE 0
    /\ DrawsOf(r) <= 1

\* a display refresh drew a running runner, which has its one callback
\* pending, while another, stopped by setRunning(false), has none
C18_Witness ==
  \E r \in handlers, q \in handlers :
    /\ sched.running[r]
    /\ Pending(r) = 1
    /\ \E call \in Calls : call.runner = r /\ call.gap > 0
    /\ sched.awaitStart[q]
    /\ ~sched.running[q]
    /\ Pending(q) = 0

----------------------------------------------------------------------------
(* Space-Glider claims *)

AfterUpdate == glider # Idle /\ glider.obs.kind = "update"

LevelIsReset == glider.score = 0 /\ glider.fuel = FuelFull * FuelUnit

\* C7 -- as stated: whenever, after integration, the ship's centre is at or
\* below wellRadius + shipRadius from some well's centre (equality included),
\* the step ends with the level reset: score 0 and fuel 100.
C7_ResetAtOrBelow ==
  AfterUpdate /\ glider.obs.nearness \in {"overlap", "touch"} => LevelIsReset

\* C7 -- amended: whenever, after integration and the bounce off the edges,
\* the ship's centre is strictly below wellRadius + shipRadius from some well's
\* centre, the step ends with the level reset: score 0 and fuel 100.
C7_ResetBelow ==
  AfterUpdate /\ glider.obs.nearness = "overlap" => LevelIsReset

\* a step that found the ship overlapping a well with points scored and fuel
\* spent, and ended with the level reset
C7_Witness ==
  /\ AfterUpdate
  /\ glider.obs.nearness = "overlap"
  /\ glider.obs.scoreAt > 0
  /\ glider.obs.fuelAt < FuelFull * FuelUnit
  /\ LevelIsReset

ControlKeys == {"arrowup", "w", "arrowleft", "a", "arrowright", "d", "r"}

InBounds(p) == 0 <= p.x /\ p.x <= CanvasW * Unit /\ 0 <= p.y /\ p.y <= CanvasH * Unit

\* C8 -- an update step with zero wells, no thrust, turn or restart key held
\* and dt = 0, begun with the ship in bounds, leaves the ship's position and
\* velocity as they were before the step.
C8_ZeroStepKeepsShip ==
  [][ ( /\ glider.wells = <<>>
        /\ glider.keys \cap ControlKeys = {}
        /\ InBounds(glider.ship.p)
        /\ GliderFrame(0) )
      => glider'.ship.p = glider.ship.p /\ glider'.ship.v = glider.ship.v
    ]_vars

\* such a step taken by a moving ship that lies on the canvas's left edge
C8_Witness ==
  /\ AfterUpdate
  /\ glider.obs.dt = 0
  /\ glider.obs.wells = 0
  /\ glider.obs.keys \cap ControlKeys = {}
  /\ glider.obs.before.p.x = 0
  /\ glider.obs.before.v.x # 0
  /\ glider.ship.v = glider.obs.before.v
  /\ glider.ship.p = glider.obs.before.p

ThrustKeys == {"arrowup", "w"}

\* the step from glider to glider' is an update step, and one that did not
\* reset the level: the restart key was up and the ship met no well
UpdateStep == glider # Idle /\ glider'.steps = glider.steps + 1

KeptLevel(g) == "r" \notin g.obs.keys /\ g.obs.nearness # "overlap"

\* fuel - dt*(keys["shift"]?4:2), in hundredths
Burnt(dt, keys) == dt * (IF "shift" \in keys THEN 4 ELSE 2)

FuelInRange(g) == g # Idle => 0 <= g.fuel /\ g.fuel <= FuelFull * FuelUnit

\* the ship the same step leaves when no thrust or boost key is held
Unthrusted(g, dt, keys) ==
  LET k == CHOOSE k \in LayoutIds : TRUE
  IN update(g, dt, keys \ (ThrustKeys \cup {"shift"}), k, k).ship

\* what C17 says of every step but the amount burnt
FuelRules(amount(_, _, _)) ==
  /\ FuelInRange(glider) /\ FuelInRange(glider')
  /\ UpdateStep /\ KeptLevel(glider') =>
       LET dt == glider'.obs.dt
           keys == glider.keys
           burning == keys \cap ThrustKeys # {} /\ glider.fuel > 0
       IN /\ glider'.fuel <= glider.fuel
          /\ ~burning => glider'.fuel = glider.fuel
          /\ burning => glider'.fuel = glider.fuel - amount(glider.fuel, dt, keys)
          /\ glider.fuel = 0 => glider'.ship = Unthrusted(glider, dt, keys)

WholeBurn(fuel, dt, keys) == Burnt(dt, keys)
BurnToEmpty(fuel, dt, keys) == IF Burnt(dt, keys) > fuel THEN fuel ELSE Burnt(dt, keys)

\* C17 -- as stated: fuel stays within [0, 100]; in an update step that does
\* not reset the level fuel never increases, changes only when a thrust key is
\* held and fuel > 0, and then falls by exactly 2*dt, or 4*dt with the boost
\* key; with fuel 0 a thrust key adds no acceleration to the ship.
C17_BurnsWholeRate == [][FuelRules(WholeBurn)]_vars

\* C17 -- amended: the same, the fall being 2*dt, or 4*dt with the boost key,
\* or all the fuel that remains when less than that remains.
C17_BurnsToEmpty == [][FuelRules(BurnToEmpty)]_vars

\* a step that burnt the last of the fuel with the thrust key held
C17_Witness ==
  /\ AfterUpdate
  /\ KeptLevel(glider)
  /\ glider.obs.keys \cap ThrustKeys # {}
  /\ glider.obs.dt > 0
  /\ glider.fuel = 0

Collected(g) == {i \in 1..Len(g.orbs) : g.orbs[i].got}

\* score = 10 * the number of orbs whose collected flag is set
ScoreCounts(g) == g # Idle => g.score = 10 * Cardinality(Collected(g))

\* C19 -- before and after every update step and every reset the score is 10
\* times the number of collected orbs of the level; an update step that does
\* not reset the level leaves every collected orb collected.
C19_ScoreCountsOrbs ==
  [][ /\ ScoreCounts(glider) /\ ScoreCounts(glider')
      /\ UpdateStep /\ KeptLevel(glider') => Collected(glider) \subseteq Collected(glider')
    ]_vars

\* a step that ended with the ship on a collected orb and the level kept
C19_Witness ==
  /\ AfterUpdate
  /\ KeptLevel(glider)
  /\ \E i \in Collected(glider) : orbHit(glider.ship, glider.orbs[i])

----------------------------------------------------------------------------
(* Torque-Tycoon claims *)

AfterStep == torque # Idle /\ torque.last = "step"

IndicatorShown == torque.badge = "success"

\* C9 -- as stated: after every step the target-reached indicator is shown
\* exactly when the angle the lever is drawn at (lever.angle) is within the
\* tolerance 0.02 of the target angle.
C9_ShownIffDrawnNear ==
  AfterStep =>
    (IndicatorShown <=> Abs(torque.lever.angle - torque.lever.target) < Tolerance)

\* C9 -- amended: after every step the target-reached indicator is shown
\* exactly when the angle the lever relaxes toward, sumTorque()/stiffness, is
\* within the tolerance 0.02 of the target angle.
C9_ShownIffRestNear ==
  AfterStep =>
    (IndicatorShown <=> Abs(restAngle(torque.masses) - torque.lever.target) < Tolerance)

\* a step that shows the indicator while the lever is drawn far from the target
C9_Witness ==
  /\ AfterStep
  /\ IndicatorShown
  /\ Abs(torque.lever.angle - torque.lever.target) >= Tolerance
  /\ Len(torque.masses) > 1

----------------------------------------------------------------------------
(* Mirror-Madness claims *)

SourceD == Vec(cosDeg(optics.source.dir), sinDeg(optics.source.dir))

\* the beam drawn last met a mirror first, and met it at a right angle
MetAtRightAngle ==
  /\ optics # Idle
  /\ optics.last = "draw"
  /\ Len(optics.pts) >= 2
  /\ optics.pts[2].n # NoNormal
  /\ cross(SourceD, optics.pts[2].n) = 0

\* the path has a segment that leaves q against the direction d
LeavesBack(pts, q, d) ==
  \E i \in 1..(Len(pts) - 1) :
    LET seg == Vec(pts[i + 1].p.x - pts[i].p.x, pts[i + 1].p.y - pts[i].p.y)
    IN pts[i].p = q /\ cross(seg, d) = 0 /\ dot(seg, d) < 0

\* C10 -- when castRay is started with a ray that hits a mirror whose tangent
\* is perpendicular to the ray, the path it returns has a segment from the hit
\* point back toward the source, along the reverse of the incoming direction.
C10_ReflectsBack ==
  MetAtRightAngle => LeavesBack(optics.pts, optics.pts[2].p, SourceD)

\* the beam drawn last
Drawn == optics # Idle /\ optics.last = "draw"

\* pts[i] is a reflection point: castRay stored it with the mirror's normal
IsReflection(pts, i) == pts[i].n # NoNormal

\* C15 -- castRay takes the hit with the smallest strictly positive ray
\* parameter: no reflection point lies at the start of the ray that found it,
\* so a ray that starts on the mirror it has just left is not reflected by
\* that mirror again at parameter 0.
C15_HitsAhead ==
  Drawn =>
    \A i \in 2..Len(optics.pts) :
      IsReflection(optics.pts, i) => optics.pts[i].p # optics.pts[i - 1].p

\* the number of reflection points of the path
Reflections(pts) == Cardinality({i \in 1..Len(pts) : IsReflection(pts, i)})

\* the path's last segment is the 2000-long one castRay adds when the ray meets
\* no mirror: 2000 along an axis, 1414 along each axis on a diagonal
EndsFar(pts) ==
  LET a == pts[Len(pts) - 1]
      b == pts[Len(pts)]
  IN /\ a.n = NoNormal
     /\ b.n = NoNormal
     /\ Abs(ISqrt(Dist2(a.p, b.p)) - FarLen) <= 2

\* the path stops where the bounce cap cut it: a fifth reflection point, then
\* the start of the ray that was not cast
EndsAtCap(pts) ==
  /\ Reflections(pts) = 5
  /\ IsReflection(pts, Len(pts) - 1)
  /\ pts[Len(pts)] = [p |-> pts[Len(pts) - 1].p, n |-> NoNormal]

\* C16 -- castRay returns for every arrangement of the mirrors: the path has
\* at most five reflection points and ends either with the 2000-long segment
\* of a ray that meets no mirror or where the bounce cap stopped it.
C16_PathEnds ==
  Drawn =>
    /\ Reflections(optics.pts) <= 5
    /\ Len(optics.pts) >= 2
    /\ EndsFar(optics.pts) \/ EndsAtCap(optics.pts)

\* a beam was drawn that met a mirror, was reflected and then left the scene
C16_Witness ==
  /\ Drawn
  /\ Len(optics.pts) >= 4
  /\ Reflections(optics.pts) \in 1..4
  /\ EndsFar(optics.pts)

----------------------------------------------------------------------------
(* Projectile claims *)

\* the stored path ends at a sample at or below ground that follows a sample
\* above ground
EndsAtLanding(pts) ==
  /\ Len(pts) >= 2
  /\ pts[Len(pts)].y >= 0
  /\ \E i \in 1..(Len(pts) - 1) : pts[i].y < 0

\* v0^2 * sin(2*angle) / g
idealRange(st) ==
  Quot(st.v0 * st.v0 * sinOfDeg(2 * st.angle), st.g) * 100

\* the ground covered in one integration step of generate(), and the error of
\* the model's sines (two thousandths of the range)
RangeTolerance(st) ==
  Quot(launch(st).vx * GenStepMs, Milli) + Quot(idealRange(st), 500) + 1

\* C11 -- with drag = 0, for every speed, angle and gravity the sliders can
\* set, the path generate() stores ends at a landing sample whose horizontal
\* position is the ideal range v0^2 sin(2 angle)/g, within one integration step.
C11_RangeAtLanding ==
  (projectile # Idle /\ ~projectile.running /\ projectile.drag = 0) =>
    /\ EndsAtLanding(projectile.points)
    /\ Abs(projectile.points[Len(projectile.points)].x - idealRange(projectile))
         <= RangeTolerance(projectile)

\* C12 -- after Fire, while frames keep coming, the animated flight stops by
\* itself (state.running becomes false), whatever frame deltas in (0, 0.05]
\* the scheduler delivers.
C12_FlightStops == projectile.running ~> ~projectile.running

----------------------------------------------------------------------------
(* RC Circuit claims *)

\* C13 -- a frame adds exactly dt to the elapsed time and leaves the charging
\* flag; a mode toggle sets the elapsed time to 0 and flips the flag; a reset
\* sets the elapsed time to 0 and leaves the flag; a parameter edit changes
\* neither.
C13_RcSteps ==
  [][ /\ \A dt \in RcDts :
           RcFrame(dt) => rc'.t = rc.t + dt /\ rc'.charging = rc.charging
      /\ RcToggle => rc'.t = 0 /\ rc'.charging = ~rc.charging
      /\ RcReset => rc'.t = 0 /\ rc'.charging = rc.charging
      /\ \A field \in {"R", "C", "V"} : \A v \in RcParams[field] :
           RcEdit(field, v) => rc'.t = rc.t /\ rc'.charging = rc.charging
    ]_vars

\* a toggle that found time elapsed while discharging: the time is back at 0
\* and the circuit charges
C13_Witness ==
  /\ rc # Idle
  /\ rc.last.op = "toggle"
  /\ rc.last.t > 0
  /\ rc.t = 0
  /\ rc.charging

----------------------------------------------------------------------------
(* Wave Interference claims *)

\* the pixel is as far from one source as from the other
Equidistant(st, px) == radius(px, sourceAt(st, 0 - 1)) = radius(px, sourceAt(st, 1))

\* the phase is a multiple of 2 pi, to the model's precision
WholeTurns(phase) ==
  LET rest == phase % TwoPi IN rest <= 10 \/ rest >= TwoPi - 10

\* C14 -- painted at elapsed time 0, every pixel equidistant from the two
\* sources has a phase that is a multiple of 2 pi and the maximum intensity 1,
\* whatever the wavelength.
C14_MaxAtEquidistant ==
  (waves # Idle /\ waves.paintedAt = 0) =>
    \A px \in SamplePixels :
      Equidistant(waves, px) =>
        WholeTurns(waves.img[px].phase) /\ waves.img[px].I >= Milli - 1

====
